---- MODULE Spec2Model ----
(***************************************************************************)
(* A model of diflib.c: ComputeEditScript (Myers' O(ND) search over a      *)
(* trace arena V, followed by ConstructEditScript, which reverses the back *)
(* pointers and walks the path emitting Keep/Delete/Insert runs through    *)
(* AddEditScript) and ApplyEditScript (the interpreter of the script).     *)
(*                                                                         *)
(* Bytes are integers 0..255.  C strings and buffers are indexed from 0:   *)
(* a string is a TLA+ sequence s with C's s[j] = s[j+1]; a caller-owned    *)
(* buffer (the script, the output) and the malloc'ed arena are functions   *)
(* whose domain is the set of indices written so far, since their initial  *)
(* content is indeterminate.  A pointer into NewString (Token) is the      *)
(* offset it points at.                                                    *)
(***************************************************************************)
EXTENDS Integers, Sequences, FiniteSets, TLC

\* ------------------------------------------------------------------------
\* Bounds of the model
\* ------------------------------------------------------------------------
MaxLen == 3          \* longest short input string
LongLen == 129       \* length of the one long NewString (three Insert chunks)
MaxRawLen == 3       \* longest caller-made script handed to ApplyEditScript
MaxRunCount == 130   \* longest run handed to AddEditScript on its own (three chunks)

Alphabet == {97, 98}                         \* 'a', 'b'
RawBytes == {0, 64, 65, 128, 192}            \* Noop 1, Insert 1, Insert 2, Delete 1, Keep 1

\* ------------------------------------------------------------------------
\* Program constants
\* ------------------------------------------------------------------------
NoopOpcode == 0
InsertOpcode == 1
DeleteOpcode == 2
KeepOpcode == 3
MaxCount == 64       \* largest count one opcode byte carries

NULL == "NULL"       \* StartInsertToken before any Insert run
Unset == "unset"     \* a field of a malloc'ed entry that was never assigned

\* ------------------------------------------------------------------------
\* Helpers
\* ------------------------------------------------------------------------
Max(a, b) == IF a >= b THEN a ELSE b

\* C integer division (truncation toward zero)
CDiv(a, b) == IF a >= 0 THEN a \div b ELSE -((-a) \div b)

\* all strings over S of length 0..n
StringsUpTo(S, n) == UNION {[1..m -> S] : m \in 0..n}

\* C's s[j] for a string s
At(s, j) == s[j + 1]

\* store byte b at index idx of buffer P
Poke(P, idx, b) == IF idx \in DOMAIN P THEN [P EXCEPT ![idx] = b] ELSE (idx :> b) @@ P

\* (mutation) the count stored without the bias of 1
EntryByteUnbiased(Opcode, CountField) == Opcode * 64 + ((CountField + 1) % 64)

\* EDIT_SCRIPT_ENTRY: Count in the low 6 bits, Opcode in the high 2 bits
EntryByte(Opcode, CountField) == Opcode * 64 + CountField
OpcodeOf(b) == b \div 64
CountOf(b) == (b % 64) + 1

\* ------------------------------------------------------------------------
\* The trace arena
\* ------------------------------------------------------------------------
DkIndex(d, kk) == CDiv((d * d) + (2 * d) + kk, 2)

\* A WORK_SPACE_ENTRY as malloc returns it.  The fields D and k are left out:
\* the program stores them and only DebugPrintArray reads them.
BlankEntry == [SavedX |-> Unset, SavedY |-> Unset, IsDelete |-> Unset,
               Index |-> Unset, Back |-> Unset, Token |-> Unset]

\* entry idx of the arena
EntryAt(W, idx) == IF idx \in DOMAIN W THEN W[idx] ELSE BlankEntry

\* V[idx] = e
Store(W, idx, e) == IF idx \in DOMAIN W THEN [W EXCEPT ![idx] = e] ELSE (idx :> e) @@ W

\* the k values of row d:  for (k = -D; k <= D; k += 2)
RowKs(d) == {kk \in (-d)..d : (kk + d) % 2 = 0}

\* MaxVSize = (OldStringLength+1) * (NewStringLength+1)
MaxVSizeOf(OldS, NewS) == (Len(OldS) + 1) * (Len(NewS) + 1)

\* number of entries malloc allocates: MaxVSize * (MaxVSize+1)
AllocatedEntries(OldS, NewS) == MaxVSizeOf(OldS, NewS) * (MaxVSizeOf(OldS, NewS) + 1)

\* the arena indices at which the initialisation loops store D and k:
\*   for (D = 0; D < MaxVSize; D++) for (k = -D; k <= D; k += 2) i = DkIndex(D,k)
InitIndices(MaxVSize) == UNION {{DkIndex(d, kk) : kk \in RowKs(d)} : d \in 0..(MaxVSize - 1)}

\* V[0].SavedX = 0; V[0].SavedY = -1
SeedOrigin(W) == Store(W, 0, [EntryAt(W, 0) EXCEPT !.SavedX = 0, !.SavedY = -1])

\* (mutation) an if in place of the while: at most one common token skipped
SnakeOnce(OldS, NewS, X, Y) ==
  IF (X < Len(OldS)) /\ (Y < Len(NewS)) /\ (At(OldS, X) = At(NewS, Y))
  THEN <<X + 1, Y + 1>>
  ELSE <<X, Y>>

\* the snake: skip over common tokens
RECURSIVE Snake(_, _, _, _)
Snake(OldS, NewS, X, Y) ==
  IF (X < Len(OldS)) /\ (Y < Len(NewS)) /\ (At(OldS, X) = At(NewS, Y))
  THEN Snake(OldS, NewS, X + 1, Y + 1)
  ELSE <<X, Y>>

\* the test that selects the insert branch
TakeInsert(W, d, kk) ==
  (kk = -d) \/ ((kk # d) /\ (W[DkIndex(d - 1, kk - 1)].SavedX < W[DkIndex(d - 1, kk + 1)].SavedX))

\* (mutation) both predecessors read before k is tested against -D and D
EntryReadsBoth(d, kk) == {DkIndex(d - 1, kk - 1), DkIndex(d - 1, kk + 1)}

\* arena indices the body of the k loop reads for (d,kk)
EntryReads(d, kk) ==
  IF kk = -d THEN {DkIndex(d - 1, kk + 1)}
  ELSE IF kk = d THEN {DkIndex(d - 1, kk - 1)}
  ELSE {DkIndex(d - 1, kk - 1), DkIndex(d - 1, kk + 1)}

\* V[Index].SavedX = X; V[Index].SavedY = Y
SaveXY(e, s) == [e EXCEPT !.SavedX = s[1], !.SavedY = s[2]]

\* the insert branch: X and Y taken from the top predecessor, the entry
\* marked as an insert of NewString[Y-1], then the snake and the save
InsertEntry(W, Index, TopIndex, OldS, NewS) ==
  SaveXY([EntryAt(W, Index) EXCEPT !.IsDelete = 0, !.Index = W[TopIndex].SavedX,
                                   !.Token = (W[TopIndex].SavedY + 1) - 1, !.Back = TopIndex],
         Snake(OldS, NewS, W[TopIndex].SavedX, W[TopIndex].SavedY + 1))

\* the delete branch: X and Y taken from the bottom predecessor, the entry
\* marked as a delete, then the snake and the save
DeleteEntry(W, Index, BotIndex, OldS, NewS) ==
  SaveXY([EntryAt(W, Index) EXCEPT !.IsDelete = 1, !.Index = W[BotIndex].SavedX + 1,
                                   !.Back = BotIndex],
         Snake(OldS, NewS, W[BotIndex].SavedX + 1, W[BotIndex].SavedY))

\* the body of the k loop: the entry stored at DkIndex(d,kk)
SearchEntry(W, d, kk, OldS, NewS) ==
  IF TakeInsert(W, d, kk)
  THEN InsertEntry(W, DkIndex(d, kk), DkIndex(d - 1, kk + 1), OldS, NewS)
  ELSE DeleteEntry(W, DkIndex(d, kk), DkIndex(d - 1, kk - 1), OldS, NewS)

\* (mutation) the goal test with > in place of >=
AtGoalStrict(e, OldS, NewS) == (e.SavedX > Len(OldS)) /\ (e.SavedY > Len(NewS))

\* the goal test: both X and Y have reached the ends of their strings
AtGoal(e, OldS, NewS) == (e.SavedX >= Len(OldS)) /\ (e.SavedY >= Len(NewS))

\* the entry e of (d,kk) is stored and tested against the goal
StoreAndTest(st, d, kk, e, OldS, NewS) ==
  [V |-> Store(st.V, DkIndex(d, kk), e),
   found |-> AtGoal(e, OldS, NewS),
   Index |-> IF AtGoal(e, OldS, NewS) THEN DkIndex(d, kk) ELSE -1,
   acc |-> st.acc \cup {DkIndex(d, kk)} \cup EntryReads(d, kk)]

\* one pass of the k loop
SearchStep(st, d, kk, OldS, NewS) ==
  StoreAndTest(st, d, kk, SearchEntry(st.V, d, kk, OldS, NewS), OldS, NewS)

\* the passes lo..hi of  for (k = -D; k <= D; k += 2)  in order (pass j has
\* k = -D + 2j); the loop is left at the goal entry.  The range is halved
\* only to keep the evaluation shallow.
RECURSIVE SearchKs(_, _, _, _, _, _)
SearchKs(st, d, lo, hi, OldS, NewS) ==
  IF st.found \/ (lo > hi) THEN st
  ELSE IF lo = hi THEN SearchStep(st, d, (-d) + (2 * lo), OldS, NewS)
  ELSE SearchKs(SearchKs(st, d, lo, (lo + hi) \div 2, OldS, NewS),
                d, ((lo + hi) \div 2) + 1, hi, OldS, NewS)

\* the k loop of the search for one D
SearchRow(W, d, OldS, NewS) ==
  SearchKs([V |-> W, found |-> FALSE, Index |-> -1, acc |-> {}], d, 0, d, OldS, NewS)

\* ------------------------------------------------------------------------
\* AddEditScript: the chunking encoder.  Returns the next free index (or -1
\* on overflow, -3 on a bad opcode) and the buffer as written.
\* ------------------------------------------------------------------------

\* while ((Index < Length) && (Count > 64)) for Keep and Delete
RECURSIVE AddFullChunks(_, _, _, _, _)
AddFullChunks(P, Length, Index, Opcode, Count) ==
  IF (Index < Length) /\ (Count > MaxCount)
  THEN AddFullChunks(Poke(P, Index, EntryByte(Opcode, MaxCount - 1)), Length,
                     Index + 1, Opcode, Count - MaxCount)
  ELSE [P |-> P, Index |-> Index, Count |-> Count]

\* (mutation) the payload copy without the test of Index against Length
RECURSIVE CopyPayloadUnchecked(_, _, _, _, _, _, _)
CopyPayloadUnchecked(c, Length, NewS, Tok, kk, lo, hi) ==
  IF lo > hi THEN c
  ELSE IF lo = hi
  THEN [P |-> Poke(c.P, c.Index, At(NewS, Tok + (kk * MaxCount) + lo)),
        Index |-> c.Index + 1, Count |-> c.Count - 1]
  ELSE CopyPayloadUnchecked(CopyPayloadUnchecked(c, Length, NewS, Tok, kk, lo, (lo + hi) \div 2),
                            Length, NewS, Tok, kk, ((lo + hi) \div 2) + 1, hi)

\* the passes i = lo..hi, in order, of
\*   for (i = 0; (i < lim) && (Index < Length); i++, Index++, Count--)
\*     ((char *)P)[Index] = NewString[k*64+i];      with NewString = &NewS[Tok]
\* where c holds P, Index and Count; once Index < Length fails the loop is over
RECURSIVE CopyPayload(_, _, _, _, _, _, _)
CopyPayload(c, Length, NewS, Tok, kk, lo, hi) ==
  IF (lo > hi) \/ ~(c.Index < Length) THEN c
  ELSE IF lo = hi
  THEN [P |-> Poke(c.P, c.Index, At(NewS, Tok + (kk * MaxCount) + lo)),
        Index |-> c.Index + 1, Count |-> c.Count - 1]
  ELSE CopyPayload(CopyPayload(c, Length, NewS, Tok, kk, lo, (lo + hi) \div 2),
                   Length, NewS, Tok, kk, ((lo + hi) \div 2) + 1, hi)

\* (mutation) the chunk counter k is never advanced
RECURSIVE AddFullInsertsSameChunk(_, _, _, _, _)
AddFullInsertsSameChunk(c, Length, NewS, Tok, kk) ==
  IF (c.Index < Length) /\ (c.Count > MaxCount)
  THEN AddFullInsertsSameChunk(
         CopyPayload([P |-> Poke(c.P, c.Index, EntryByte(InsertOpcode, MaxCount - 1)),
                      Index |-> c.Index + 1, Count |-> c.Count],
                     Length, NewS, Tok, kk, 0, MaxCount - 1),
         Length, NewS, Tok, kk)
  ELSE [P |-> c.P, Index |-> c.Index, Count |-> c.Count, k |-> kk]

\* while ((Index < Length) && (Count > 64)) for Insert, where c holds P,
\* Index and Count and kk is the chunk counter k
RECURSIVE AddFullInserts(_, _, _, _, _)
AddFullInserts(c, Length, NewS, Tok, kk) ==
  IF (c.Index < Length) /\ (c.Count > MaxCount)
  THEN AddFullInserts(CopyPayload([P |-> Poke(c.P, c.Index, EntryByte(InsertOpcode, MaxCount - 1)),
                                   Index |-> c.Index + 1, Count |-> c.Count],
                                  Length, NewS, Tok, kk, 0, MaxCount - 1),
                      Length, NewS, Tok, kk + 1)
  ELSE [P |-> c.P, Index |-> c.Index, Count |-> c.Count, k |-> kk]

\* if ((Index < Length) && (Count != 0)) for Keep and Delete: the last chunk
LastChunk(a, Length, Opcode) ==
  IF (a.Index < Length) /\ (a.Count # 0)
  THEN [P |-> Poke(a.P, a.Index, EntryByte(Opcode, a.Count - 1)),
        Index |-> a.Index + 1, Count |-> 0]
  ELSE a

\* if ((Index < Length) && (Count != 0)) for Insert: the last chunk and its payload
LastInsert(a, Length, NewS, Tok) ==
  IF (a.Index < Length) /\ (a.Count # 0)
  THEN CopyPayload([P |-> Poke(a.P, a.Index, EntryByte(InsertOpcode, a.Count - 1)),
                    Index |-> a.Index + 1, Count |-> a.Count],
                   Length, NewS, Tok, a.k, 0, a.Count - 1)
  ELSE [P |-> a.P, Index |-> a.Index, Count |-> a.Count]

\* if (Count == 0) return Index; return -1;
IndexOrOverflow(b) == [ret |-> IF b.Count = 0 THEN b.Index ELSE -1, P |-> b.P]

AddEditScript(P, Length, Index, Opcode, Count, NewS, Tok) ==
  IF (Opcode = KeepOpcode) \/ (Opcode = DeleteOpcode)
  THEN IndexOrOverflow(LastChunk(AddFullChunks(P, Length, Index, Opcode, Count), Length, Opcode))
  ELSE IF Opcode = InsertOpcode
  THEN IndexOrOverflow(LastInsert(AddFullInserts([P |-> P, Index |-> Index, Count |-> Count],
                                                 Length, NewS, Tok, 0),
                                  Length, NewS, Tok))
  ELSE [ret |-> -3, P |-> P]

\* ------------------------------------------------------------------------
\* ConstructEditScript
\* ------------------------------------------------------------------------

\* one pass of the loop that reverses the back pointers
\*   j = V[i].Back; V[i].Back = k; k = i; i = j;
ReverseLink(W, ii, kk) == [V |-> [W EXCEPT ![ii].Back = kk], i |-> W[ii].Back, k |-> ii]

\* if (OpcodeCount > 0) CurrentEditScriptIndex = j = AddEditScript(...)
Flush(w, Length, NewS) ==
  IF w.OpcodeCount > 0
  THEN AddEditScript(w.EditScript, Length, w.CurrentEditScriptIndex,
                     w.LastOpcode, w.OpcodeCount, NewS, w.StartInsertToken)
  ELSE [ret |-> w.CurrentEditScriptIndex, P |-> w.EditScript]

\* (mutation) the delete node's test made loose
KeepTestDeleteLoose(ii, v) == ii <= v.Index

\* the test of the emission walk on a delete node v
KeepTestDelete(ii, v) == ii < v.Index

\* (mutation) the insert node's test made strict
KeepTestInsertStrict(ii, v) == ii < v.Index

\* the test of the emission walk on an insert node v
KeepTestInsert(ii, v) == ii <= v.Index

\* the walk locals as ConstructEditScript sets them before the loop
WalkStart(W) ==
  [i |-> 0, CurrentVIndex |-> W[0].Back, CurrentEditScriptIndex |-> 0,
   LastOpcode |-> NoopOpcode, OpcodeCount |-> 0, StartInsertToken |-> NULL,
   EditScript |-> <<>>, returned |-> FALSE, ret |-> 0]

\* the run before has been flushed with result f: return its error, or
\* start a run of Opcode
StartRun(w, f, Opcode) ==
  IF f.ret < 0
  THEN [w EXCEPT !.EditScript = f.P, !.CurrentEditScriptIndex = f.ret,
                 !.returned = TRUE, !.ret = f.ret]
  ELSE [w EXCEPT !.EditScript = f.P, !.CurrentEditScriptIndex = f.ret,
                 !.OpcodeCount = 1, !.LastOpcode = Opcode]

\* (mutation) runs are never extended: every node is flushed on its own
RunOfNoMerge(w, Opcode, Length, NewS) == StartRun(w, Flush(w, Length, NewS), Opcode)

\* extend the run of Opcode, or flush the run before and start one
RunOf(w, Opcode, Length, NewS) ==
  IF w.LastOpcode = Opcode
  THEN [w EXCEPT !.OpcodeCount = @ + 1]
  ELSE StartRun(w, Flush(w, Length, NewS), Opcode)

\* after the Keep run r: i++
KeepStep(r) == IF r.returned THEN r ELSE [r EXCEPT !.i = @ + 1]

\* after the Delete run r on node v: CurrentVIndex = V[CurrentVIndex].Back; i++
DeleteStep(r, v) ==
  IF r.returned THEN r ELSE [r EXCEPT !.CurrentVIndex = v.Back, !.i = @ + 1]

\* (mutation) StartInsertToken is taken from every insert node
InsertStepRecapture(r, w, v) ==
  IF r.returned THEN r
  ELSE [r EXCEPT !.StartInsertToken = v.Token, !.CurrentVIndex = v.Back]

\* after the Insert run r on node v: StartInsertToken is taken from v when the
\* run is new (LastOpcode was not Insert in w, the locals before);
\* CurrentVIndex = V[CurrentVIndex].Back
InsertStep(r, w, v) ==
  IF r.returned THEN r
  ELSE [r EXCEPT !.StartInsertToken = IF w.LastOpcode = InsertOpcode THEN @ ELSE v.Token,
                 !.CurrentVIndex = v.Back]

\* the branch taken when the test on v.Index holds: a Keep unless i = 0; i++
KeepOrSkip(w, Length, NewS) ==
  IF w.i # 0
  THEN KeepStep(RunOf(w, KeepOpcode, Length, NewS))
  ELSE [w EXCEPT !.i = @ + 1]

\* the body of the loop on node v = V[CurrentVIndex]
WalkNode(w, v, Length, NewS) ==
  IF v.IsDelete # 0
  THEN IF KeepTestDelete(w.i, v)
       THEN KeepOrSkip(w, Length, NewS)
       ELSE DeleteStep(RunOf(w, DeleteOpcode, Length, NewS), v)
  ELSE IF KeepTestInsert(w.i, v)
       THEN KeepOrSkip(w, Length, NewS)
       ELSE InsertStep(RunOf(w, InsertOpcode, Length, NewS), w, v)

\* one iteration of  for (i = 0; CurrentVIndex != -1;)
WalkIteration(w, W, Length, NewS) == WalkNode(w, W[w.CurrentVIndex], Length, NewS)

\* return CurrentEditScriptIndex, the result f of the last flush
ReturnIndex(w, f) ==
  [w EXCEPT !.EditScript = f.P, !.CurrentEditScriptIndex = f.ret,
            !.returned = TRUE, !.ret = f.ret]

\* the flush after the loop and the return of CurrentEditScriptIndex
WalkReturn(w, Length, NewS) == ReturnIndex(w, Flush(w, Length, NewS))

\* ------------------------------------------------------------------------
\* ComputeEditScript as a function of its arguments (arena allocated)
\* ------------------------------------------------------------------------
\* the passes lo..hi of  for (D = 0; D < MaxVSize; D++)  of the search, in
\* order, left at the goal entry
RECURSIVE SearchDs(_, _, _, _, _)
SearchDs(st, lo, hi, OldS, NewS) ==
  IF st.found \/ (lo > hi) THEN st
  ELSE IF lo = hi THEN SearchRow(st.V, lo, OldS, NewS)
  ELSE SearchDs(SearchDs(st, lo, (lo + hi) \div 2, OldS, NewS),
                ((lo + hi) \div 2) + 1, hi, OldS, NewS)

SearchAll(W, MaxVSize, OldS, NewS) ==
  SearchDs([V |-> W, found |-> FALSE, Index |-> -1, acc |-> {}], 0, MaxVSize - 1, OldS, NewS)

\* the passes lo..hi of the reversal loop  while (i != 0), in order; the
\* chain visits each arena entry at most once
RECURSIVE ReverseLinks(_, _, _)
ReverseLinks(r, lo, hi) ==
  IF (r.i = 0) \/ (lo > hi) THEN r
  ELSE IF lo = hi THEN ReverseLink(r.V, r.i, r.k)
  ELSE ReverseLinks(ReverseLinks(r, lo, (lo + hi) \div 2), ((lo + hi) \div 2) + 1, hi)

\* V[i].Back = k  after the loop
LastLink(r) == [r.V EXCEPT ![r.i].Back = r.k]

\* the reversal loop and the final  V[i].Back = k
ReverseAll(W, ii, kk) ==
  LastLink(ReverseLinks([V |-> W, i |-> ii, k |-> kk], 1, Cardinality(DOMAIN W)))

\* the passes lo..hi of the emission loop  while (CurrentVIndex != -1), in
\* order, then the final flush and return
RECURSIVE WalkIterations(_, _, _, _, _, _)
WalkIterations(w, lo, hi, W, Length, NewS) ==
  IF w.returned \/ (lo > hi) THEN w
  ELSE IF lo = hi
       THEN IF w.CurrentVIndex # -1
            THEN WalkIteration(w, W, Length, NewS)
            ELSE WalkReturn(w, Length, NewS)
       ELSE WalkIterations(WalkIterations(w, lo, (lo + hi) \div 2, W, Length, NewS),
                           ((lo + hi) \div 2) + 1, hi, W, Length, NewS)

\* every pass either advances i, at most Len(NewS) times, or moves to the
\* next entry of the chain
WalkAll(w, W, Length, NewS) ==
  WalkIterations(w, 0, Cardinality(DOMAIN W) + Len(NewS), W, Length, NewS)

\* the emission walk over the reversed arena R
WalkFrom(R, Length, NewS) == WalkAll(WalkStart(R), R, Length, NewS)

ConstructEditScript(Length, W, EndIdx, NewS) == WalkFrom(ReverseAll(W, EndIdx, -1), Length, NewS)

\* i = ConstructEditScript(...); free(V); return i;
ReturnScript(w) == [ret |-> w.ret, EditScript |-> w.EditScript]

\* the search has ended with r: at the goal the script is built, otherwise -3
ScriptOrExhausted(r, NewS, Length) ==
  IF r.found
  THEN ReturnScript(ConstructEditScript(Length, r.V, r.Index, NewS))
  ELSE [ret |-> -3, EditScript |-> <<>>]

ComputeEditScript(OldS, NewS, Length) ==
  ScriptOrExhausted(SearchAll(SeedOrigin(<<>>), MaxVSizeOf(OldS, NewS), OldS, NewS), NewS, Length)

\* ------------------------------------------------------------------------
\* ApplyEditScript
\* ------------------------------------------------------------------------

\* (mutation) the bounds test with > in place of >=
OutputOverflowStrict(NewIdx, Count, Cap) == NewIdx + Count > Cap

\* the bounds test in front of every memcpy
OutputOverflow(NewIdx, Count, Cap) == NewIdx + Count >= Cap

\* memcpy(&NewString[NewIdx], src, Count): src[j] is the j-th source byte
Memcpy(Out, NewIdx, src, Count) ==
  [idx \in (DOMAIN Out) \cup (NewIdx..(NewIdx + Count - 1)) |->
     IF (NewIdx <= idx) /\ (idx < NewIdx + Count) THEN src[idx - NewIdx] ELSE Out[idx]]

\* the Count bytes at OldString[OldIdx..]; bytes behind the string are g's
OldBytes(OldS, OldIdx, Count, g) ==
  [j \in 0..(Count - 1) |-> IF OldIdx + j < Len(OldS) THEN At(OldS, OldIdx + j) ELSE g[j]]

\* the Count bytes at EditScript[ScriptIdx+1..]; bytes behind the script are g's
PayloadBytes(P, ScriptIdx, Count, g) ==
  [j \in 0..(Count - 1) |-> IF (ScriptIdx + 1 + j) \in DOMAIN P THEN P[ScriptIdx + 1 + j] ELSE g[j]]

\* offsets j of the copy the current opcode makes whose source byte lies
\* outside the source buffer (the memcpy then reads whatever is there)
StraySources(a, OldS, P, Cap) ==
  LET b == P[a.EditScriptIndex]
      Opcode == OpcodeOf(b)
      Count == CountOf(b)
  IN  IF Opcode = DeleteOpcode THEN {}
      ELSE IF OutputOverflow(a.NewStringIndex, Count, Cap) THEN {}
      ELSE IF Opcode = KeepOpcode
      THEN {j \in 0..(Count - 1) : a.OldStringIndex + j >= Len(OldS)}
      ELSE {j \in 0..(Count - 1) : (a.EditScriptIndex + 1 + j) \notin DOMAIN P}

\* one iteration of  while (EditScriptIndex < EditScriptLength)
ApplyIteration(a, OldS, P, Cap, g) ==
  LET b == P[a.EditScriptIndex]
      Opcode == OpcodeOf(b)
      Count == CountOf(b)
  IN  IF Opcode = DeleteOpcode
      THEN [a EXCEPT !.OldStringIndex = @ + Count, !.EditScriptIndex = @ + 1]
      ELSE IF Opcode = KeepOpcode
      THEN IF OutputOverflow(a.NewStringIndex, Count, Cap)
           THEN [a EXCEPT !.returned = TRUE, !.ret = -1]
           ELSE [a EXCEPT !.Output = Memcpy(@, a.NewStringIndex,
                                            OldBytes(OldS, a.OldStringIndex, Count, g), Count),
                          !.OldStringIndex = @ + Count,
                          !.NewStringIndex = @ + Count,
                          !.EditScriptIndex = @ + 1]
      ELSE IF OutputOverflow(a.NewStringIndex, Count, Cap)
           THEN [a EXCEPT !.returned = TRUE, !.ret = -1]
           ELSE [a EXCEPT !.Output = Memcpy(@, a.NewStringIndex,
                                            PayloadBytes(P, a.EditScriptIndex, Count, g), Count),
                          !.NewStringIndex = @ + Count,
                          !.EditScriptIndex = @ + Count + 1]

\* the copy of the rest of OldString and the return
ApplyTail(a, OldS, Cap) ==
  LET Rest == Len(OldS) - a.OldStringIndex
  IN  IF a.OldStringIndex < Len(OldS)
      THEN IF OutputOverflow(a.NewStringIndex, Rest, Cap)
           THEN [a EXCEPT !.returned = TRUE, !.ret = -1]
           ELSE [a EXCEPT !.Output = Memcpy(@, a.NewStringIndex,
                                            OldBytes(OldS, a.OldStringIndex, Rest, <<>>), Rest),
                          !.NewStringIndex = @ + Rest,
                          !.returned = TRUE, !.ret = a.NewStringIndex + Rest]
      ELSE [a EXCEPT !.returned = TRUE, !.ret = a.NewStringIndex]

ApplyStart ==
  [OldStringIndex |-> 0, EditScriptIndex |-> 0, NewStringIndex |-> 0,
   Output |-> <<>>, returned |-> FALSE, ret |-> 0]

\* ApplyEditScript as a function of its arguments, for a script whose copies
\* stay inside OldString and the script
RECURSIVE ApplyIterations(_, _, _, _, _, _, _)
ApplyIterations(a, lo, hi, OldS, P, ScriptLen, Cap) ==
  IF a.returned \/ (lo > hi) THEN a
  ELSE IF lo = hi
       THEN IF a.EditScriptIndex < ScriptLen
            THEN ApplyIteration(a, OldS, P, Cap, <<>>)
            ELSE ApplyTail(a, OldS, Cap)
       ELSE ApplyIterations(ApplyIterations(a, lo, (lo + hi) \div 2, OldS, P, ScriptLen, Cap),
                            ((lo + hi) \div 2) + 1, hi, OldS, P, ScriptLen, Cap)

ApplyAll(a, OldS, P, ScriptLen, Cap) == ApplyIterations(a, 0, ScriptLen, OldS, P, ScriptLen, Cap)

ApplyEditScript(OldS, P, ScriptLen, Cap) == ApplyAll(ApplyStart, OldS, P, ScriptLen, Cap)

\* ------------------------------------------------------------------------
\* The state machine
\* ------------------------------------------------------------------------
VARIABLES
  caller,                  \* "main": the driver, Compute then Apply on its result;
                           \* "raw": ApplyEditScript called on a caller-made script
  OldString, NewString,    \* the two input strings
  EditScriptLength,        \* capacity of the script buffer given to ComputeEditScript
  pc,                      \* where the program is
  V,                       \* the trace arena
  D,                       \* ComputeEditScript's loop counter D
  acc,                     \* arena indices read or written by the last step
  EndIndex,                \* the arena index of the goal entry
  i, k,                    \* ConstructEditScript's i and k
  CurrentVIndex, CurrentEditScriptIndex, LastOpcode, OpcodeCount, StartInsertToken,
  EditScript,              \* the script buffer
  ret,                     \* what ComputeEditScript returned
  ScriptLength,            \* EditScriptLength of ApplyEditScript
  NewStringLength,         \* capacity of the output buffer of ApplyEditScript
  OldStringIndex, EditScriptIndex, NewStringIndex,
  Output,                  \* the output buffer of ApplyEditScript
  applyRet                 \* what ApplyEditScript returned

inputVars == <<caller, OldString, NewString, EditScriptLength>>
searchVars == <<V, D, acc, EndIndex>>
walkVars == <<i, k, CurrentVIndex, CurrentEditScriptIndex, LastOpcode, OpcodeCount,
              StartInsertToken, EditScript>>
applyVars == <<ScriptLength, NewStringLength, OldStringIndex, EditScriptIndex,
               NewStringIndex, Output, applyRet>>
vars == <<inputVars, pc, searchVars, walkVars, ret, applyVars>>

ShortStrings == StringsUpTo(Alphabet, MaxLen)
LongString(n) == [j \in 1..n |-> IF j % 3 = 0 THEN 98 ELSE 97]
LongStrings == {LongString(2 * MaxCount), LongString(LongLen)}
RawScripts == StringsUpTo(RawBytes, MaxRawLen)
RawOldStrings == {<<>>, <<97>>, <<97, 98>>}

\* a script-buffer capacity that always suffices: every opcode byte accounts
\* for at least one byte of OldString or one inserted byte of NewString
AmpleLength(OldS, NewS) == Len(OldS) + (2 * Len(NewS))

\* the documented sizing of the script buffer
DocLength(OldS, NewS) == Len(OldS) + Len(NewS) + 2

\* the script-buffer capacities tried for a pair of inputs
ScriptLengths(OldS, NewS) ==
  IF Len(NewS) <= MaxLen
  THEN 0..Max(DocLength(OldS, NewS), AmpleLength(OldS, NewS))
  ELSE {DocLength(OldS, NewS), DocLength(OldS, NewS) + 1, AmpleLength(OldS, NewS)}

\* the output-buffer capacities tried for an expected output of n bytes
OutputLengths(n) == IF n <= MaxLen THEN 0..(n + 1) ELSE {n, n + 1}

Idle ==
  /\ V = <<>> /\ D = 0 /\ acc = {} /\ EndIndex = -1
  /\ i = 0 /\ k = -1 /\ CurrentVIndex = -1 /\ CurrentEditScriptIndex = 0
  /\ LastOpcode = NoopOpcode /\ OpcodeCount = 0 /\ StartInsertToken = NULL
  /\ ret = 0
  /\ ScriptLength = 0 /\ NewStringLength = 0
  /\ OldStringIndex = 0 /\ EditScriptIndex = 0 /\ NewStringIndex = 0
  /\ Output = <<>> /\ applyRet = 0

\* main: ComputeEditScript(argv[1], ..., argv[2], ..., EditScript, EditScriptLength)
InitMain ==
  /\ caller = "main"
  /\ OldString \in ShortStrings /\ NewString \in ShortStrings
  /\ EditScriptLength \in ScriptLengths(OldString, NewString)
  /\ EditScript = <<>>
  /\ pc = "call"
  /\ Idle

\* a caller about to apply a script of its own making
InitRaw ==
  /\ caller = "raw"
  /\ OldString \in RawOldStrings
  /\ NewString = <<>>
  /\ \E raw \in RawScripts :
       /\ EditScript = [j \in 0..(Len(raw) - 1) |-> raw[j + 1]]
       /\ EditScriptLength = Len(raw)
  /\ pc = "script"
  /\ Idle

Init == InitMain \/ InitRaw

\* ---- ComputeEditScript ------------------------------------------------

\* V = malloc(...) succeeds; the loops that preload D and k into every entry
\* of the first MaxVSize rows; the seeding of V[0]
Allocate ==
  /\ pc = "call"
  /\ pc' = "search"
  /\ V' = SeedOrigin(<<>>)
  /\ acc' = InitIndices(MaxVSizeOf(OldString, NewString)) \cup {0}
  /\ D' = 0
  /\ UNCHANGED <<inputVars, EndIndex, walkVars, ret, applyVars>>

\* V = malloc(...) returns NULL: return -2
MallocFails ==
  /\ pc = "call"
  /\ pc' = "computed"
  /\ ret' = -2
  /\ UNCHANGED <<inputVars, searchVars, walkVars, applyVars>>

\* the row D has been searched with result r.  At the goal
\* ConstructEditScript starts; when D runs out, free(V) and return -3
AfterRow(r) ==
  /\ acc' = r.acc
  /\ IF r.found
     THEN /\ V' = r.V /\ EndIndex' = r.Index /\ D' = D
          /\ i' = r.Index /\ k' = -1
          /\ pc' = "reverse" /\ ret' = ret
     ELSE IF D + 1 < MaxVSizeOf(OldString, NewString)
     THEN /\ V' = r.V /\ D' = D + 1
          /\ pc' = "search"
          /\ UNCHANGED <<EndIndex, i, k, ret>>
     ELSE /\ V' = <<>> /\ D' = D + 1
          /\ pc' = "computed" /\ ret' = -3
          /\ UNCHANGED <<EndIndex, i, k>>

\* one pass of the outer loop of the search (all k of one D)
SearchLoop ==
  /\ pc = "search"
  /\ AfterRow(SearchRow(V, D, OldString, NewString))
  /\ UNCHANGED <<inputVars, CurrentVIndex, CurrentEditScriptIndex, LastOpcode, OpcodeCount,
                 StartInsertToken, EditScript, applyVars>>

\* the walk locals as a record, and back
Walk ==
  [i |-> i, CurrentVIndex |-> CurrentVIndex, CurrentEditScriptIndex |-> CurrentEditScriptIndex,
   LastOpcode |-> LastOpcode, OpcodeCount |-> OpcodeCount, StartInsertToken |-> StartInsertToken,
   EditScript |-> EditScript, returned |-> FALSE, ret |-> 0]

SetWalk(w) ==
  /\ i' = w.i /\ CurrentVIndex' = w.CurrentVIndex
  /\ CurrentEditScriptIndex' = w.CurrentEditScriptIndex
  /\ LastOpcode' = w.LastOpcode /\ OpcodeCount' = w.OpcodeCount
  /\ StartInsertToken' = w.StartInsertToken /\ EditScript' = w.EditScript

\* one pass of the loop reversing the back pointers; when i reaches 0,
\* V[i].Back = k and the set-up of the emission walk
ReverseLoop ==
  /\ pc = "reverse"
  /\ acc' = {i}
  /\ IF i # 0
     THEN LET r == ReverseLink(V, i, k)
          IN  /\ V' = r.V /\ i' = r.i /\ k' = r.k
              /\ pc' = "reverse"
              /\ UNCHANGED <<CurrentVIndex, CurrentEditScriptIndex, LastOpcode, OpcodeCount,
                             StartInsertToken, EditScript>>
     ELSE LET W == [V EXCEPT ![i].Back = k]
          IN  /\ V' = W /\ k' = k
              /\ SetWalk(WalkStart(W))
              /\ pc' = "walk"
  /\ UNCHANGED <<inputVars, D, EndIndex, ret, applyVars>>

\* ConstructEditScript returns r.ret to ComputeEditScript, which frees V
\* and returns it
ReturnFromWalk(w) ==
  IF w.returned
  THEN /\ pc' = "computed" /\ ret' = w.ret /\ V' = <<>>
  ELSE /\ pc' = "walk" /\ ret' = ret /\ V' = V

\* the walk has made the step with result w
Walked(w) == SetWalk(w) /\ ReturnFromWalk(w)

\* one iteration of the emission walk
WalkLoop ==
  /\ pc = "walk"
  /\ CurrentVIndex # -1
  /\ acc' = {CurrentVIndex}
  /\ Walked(WalkIteration(Walk, V, EditScriptLength, NewString))
  /\ UNCHANGED <<inputVars, D, EndIndex, k, applyVars>>

\* the end of the walk: flush the residual run and return
WalkEnd ==
  /\ pc = "walk"
  /\ CurrentVIndex = -1
  /\ acc' = {}
  /\ Walked(WalkReturn(Walk, EditScriptLength, NewString))
  /\ UNCHANGED <<inputVars, D, EndIndex, k, applyVars>>

\* ---- ApplyEditScript --------------------------------------------------

Apply ==
  [OldStringIndex |-> OldStringIndex, EditScriptIndex |-> EditScriptIndex,
   NewStringIndex |-> NewStringIndex, Output |-> Output, returned |-> FALSE, ret |-> 0]

SetApply(a) ==
  /\ OldStringIndex' = a.OldStringIndex /\ EditScriptIndex' = a.EditScriptIndex
  /\ NewStringIndex' = a.NewStringIndex /\ Output' = a.Output
  /\ IF a.returned
     THEN pc' = "applied" /\ applyRet' = a.ret
     ELSE pc' = "apply" /\ applyRet' = applyRet

\* main applies the script it computed (only when Compute did not fail);
\* the raw caller applies its own script
CallApply ==
  /\ \/ pc = "computed" /\ ret >= 0 /\ ScriptLength' = ret
        /\ NewStringLength' \in OutputLengths(Len(NewString))
     \/ pc = "script" /\ ScriptLength' = EditScriptLength
        /\ NewStringLength' \in 0..(MaxRawLen + 1)
  /\ pc' = "apply"
  /\ OldStringIndex' = 0 /\ EditScriptIndex' = 0 /\ NewStringIndex' = 0
  /\ Output' = <<>> /\ applyRet' = 0
  /\ UNCHANGED <<inputVars, searchVars, walkVars, ret>>

\* one iteration of the opcode loop
ApplyLoop ==
  /\ pc = "apply"
  /\ EditScriptIndex < ScriptLength
  /\ \E g \in [StraySources(Apply, OldString, EditScript, NewStringLength) -> Alphabet] :
       SetApply(ApplyIteration(Apply, OldString, EditScript, NewStringLength, g))
  /\ UNCHANGED <<inputVars, searchVars, walkVars, ret, ScriptLength, NewStringLength>>

\* the end of the script: the tail rule and the return
ApplyEnd ==
  /\ pc = "apply"
  /\ EditScriptIndex >= ScriptLength
  /\ SetApply(ApplyTail(Apply, OldString, NewStringLength))
  /\ UNCHANGED <<inputVars, searchVars, walkVars, ret, ScriptLength, NewStringLength>>

Next ==
  \/ Allocate
  \/ MallocFails
  \/ SearchLoop
  \/ ReverseLoop
  \/ WalkLoop
  \/ WalkEnd
  \/ CallApply
  \/ ApplyLoop
  \/ ApplyEnd

Spec == Init /\ [][Next]_vars

\* ---- The same program seen call by call ----------------------------------
\* Each call of ComputeEditScript and of ApplyEditScript is one step; the
\* inputs include NewStrings long enough for more than one Insert chunk.

InitCalls ==
  /\ caller = "main"
  /\ \/ OldString \in ShortStrings /\ NewString \in ShortStrings
     \/ OldString = <<>> /\ NewString \in LongStrings
  /\ EditScriptLength \in ScriptLengths(OldString, NewString)
  /\ EditScript = <<>>
  /\ pc = "call"
  /\ Idle

\* the call has returned r
SetComputed(r) == (ret' = r.ret) /\ (EditScript' = r.EditScript)

\* i = ComputeEditScript(argv[1], ..., argv[2], ..., EditScript, EditScriptLength)
ComputeCall ==
  /\ pc = "call"
  /\ SetComputed(ComputeEditScript(OldString, NewString, EditScriptLength))
  /\ pc' = "computed"
  /\ UNCHANGED <<inputVars, searchVars, i, k, CurrentVIndex, CurrentEditScriptIndex,
                 LastOpcode, OpcodeCount, StartInsertToken, applyVars>>

\* the call has returned with the locals a
SetApplied(a) ==
  /\ OldStringIndex' = a.OldStringIndex /\ EditScriptIndex' = a.EditScriptIndex
  /\ NewStringIndex' = a.NewStringIndex /\ Output' = a.Output
  /\ applyRet' = a.ret

\* i = ApplyEditScript(argv[1], ..., EditScript, i, NewString, NewStringLength)
ApplyCall ==
  /\ pc = "computed"
  /\ ret >= 0
  /\ ScriptLength' = ret
  /\ NewStringLength' \in OutputLengths(Len(NewString))
  /\ SetApplied(ApplyEditScript(OldString, EditScript, ret, NewStringLength'))
  /\ pc' = "applied"
  /\ UNCHANGED <<inputVars, searchVars, walkVars, ret>>

NextCalls ==
  \/ ComputeCall
  \/ MallocFails
  \/ ApplyCall

SpecCalls == InitCalls /\ [][NextCalls]_vars

\* ---- AddEditScript called on its own ---------------------------------------
\* One call of AddEditScript(EditScript, EditScriptLength,
\* CurrentEditScriptIndex, LastOpcode, OpcodeCount, &NewString[StartInsertToken])
\* on an empty buffer, for every opcode, every Count up to MaxRunCount and a
\* capacity one short of, equal to and one above what the run needs.

\* number of script bytes a run of Count needs
RunBytes(Opcode, Count) ==
  ((Count + (MaxCount - 1)) \div MaxCount) + (IF Opcode = InsertOpcode THEN Count ELSE 0)

InitEncoder ==
  /\ caller = "encoder"
  /\ OldString = <<>> /\ NewString = LongString(MaxRunCount + 1)
  /\ LastOpcode \in {NoopOpcode, InsertOpcode, DeleteOpcode, KeepOpcode}
  /\ OpcodeCount \in 1..MaxRunCount
  /\ CurrentEditScriptIndex \in {0, 1}
  /\ StartInsertToken \in (IF LastOpcode = InsertOpcode THEN {0, 1} ELSE {NULL})
  /\ \E room \in {RunBytes(LastOpcode, OpcodeCount) + d : d \in {-1, 0, 1}} :
       EditScriptLength = CurrentEditScriptIndex + room
  /\ EditScript = <<>>
  /\ pc = "encode"
  /\ V = <<>> /\ D = 0 /\ acc = {} /\ EndIndex = -1
  /\ i = 0 /\ k = -1 /\ CurrentVIndex = -1
  /\ ret = 0
  /\ ScriptLength = 0 /\ NewStringLength = 0
  /\ OldStringIndex = 0 /\ EditScriptIndex = 0 /\ NewStringIndex = 0
  /\ Output = <<>> /\ applyRet = 0

\* the call has returned f
Encoded(f) == (ret' = f.ret) /\ (EditScript' = f.P)

EncodeCall ==
  /\ pc = "encode"
  /\ Encoded(AddEditScript(EditScript, EditScriptLength, CurrentEditScriptIndex,
                           LastOpcode, OpcodeCount, NewString, StartInsertToken))
  /\ pc' = "encoded"
  /\ UNCHANGED <<inputVars, searchVars, i, k, CurrentVIndex, CurrentEditScriptIndex,
                 LastOpcode, OpcodeCount, StartInsertToken, applyVars>>

NextEncoder == EncodeCall

SpecEncoder == InitEncoder /\ [][NextEncoder]_vars

\* ------------------------------------------------------------------------
\* Properties
\* ------------------------------------------------------------------------
N == Len(OldString)
M == Len(NewString)

\* ComputeEditScript, called by main, has just returned
Computed == (caller = "main") /\ (pc = "computed")

\* ApplyEditScript, called by main on the script it computed, has returned
Applied == (caller = "main") /\ (pc = "applied")

\* the output buffer holds exactly the bytes of string s, in order
OutputIs(s) == (DOMAIN Output = 0..(Len(s) - 1)) /\ (\A j \in 0..(Len(s) - 1) : Output[j] = At(s, j))

\* the script P parses from offset pos to exactly offset L as opcode bytes
\* Insert/Delete/Keep, each Insert followed by Count payload bytes
RECURSIVE ParsesTo(_, _, _)
ParsesTo(P, pos, L) ==
  IF pos = L THEN TRUE
  ELSE IF (pos > L) \/ (pos \notin DOMAIN P) THEN FALSE
  ELSE IF OpcodeOf(P[pos]) = NoopOpcode THEN FALSE
  ELSE IF OpcodeOf(P[pos]) = InsertOpcode
  THEN /\ \A j \in 1..CountOf(P[pos]) : (pos + j < L) /\ ((pos + j) \in DOMAIN P)
       /\ ParsesTo(P, pos + 1 + CountOf(P[pos]), L)
  ELSE ParsesTo(P, pos + 1, L)

\* the sum of Count over the opcodes of kind Opcode in the script P[pos..L-1]
RECURSIVE CountSum(_, _, _, _)
CountSum(P, pos, L, Opcode) ==
  IF pos >= L THEN 0
  ELSE (IF OpcodeOf(P[pos]) = Opcode THEN CountOf(P[pos]) ELSE 0)
       + CountSum(P, IF OpcodeOf(P[pos]) = InsertOpcode THEN pos + 1 + CountOf(P[pos]) ELSE pos + 1,
                  L, Opcode)

\* the number of opcode bytes of kind Opcode in the script P[pos..L-1]
RECURSIVE OpcodeBytes(_, _, _, _)
OpcodeBytes(P, pos, L, Opcode) ==
  IF pos >= L THEN 0
  ELSE (IF OpcodeOf(P[pos]) = Opcode THEN 1 ELSE 0)
       + OpcodeBytes(P, IF OpcodeOf(P[pos]) = InsertOpcode THEN pos + 1 + CountOf(P[pos]) ELSE pos + 1,
                     L, Opcode)

\* the length of a longest common subsequence of a[1..x] and b[1..y]
RECURSIVE LCS(_, _, _, _)
LCS(a, x, b, y) ==
  IF (x = 0) \/ (y = 0) THEN 0
  ELSE IF a[x] = b[y] THEN 1 + LCS(a, x - 1, b, y - 1)
  ELSE Max(LCS(a, x - 1, b, y), LCS(a, x, b, y - 1))

\* the shortest insert/delete edit distance
EditDistance(a, b) == Len(a) + Len(b) - (2 * LCS(a, Len(a), b, Len(b)))

\* C1: round trip.  With an ample script buffer ComputeEditScript returns a
\* length L >= 0 (unless malloc failed), and ApplyEditScript on OldString and
\* the first L script bytes, with an output capacity of at least |New|+1,
\* returns |New| and has written exactly the bytes of NewString, in order.
RoundTrip ==
  /\ (Computed /\ (ret # -2) /\ (EditScriptLength >= AmpleLength(OldString, NewString)))
       => (ret >= 0)
  /\ (Applied /\ (NewStringLength >= M + 1))
       => ((applyRet = M) /\ OutputIs(NewString))

\* a round trip that kept, deleted and inserted bytes
RoundTripWitness ==
  /\ Applied /\ (applyRet = M) /\ OutputIs(NewString) /\ (NewStringLength >= M + 1)
  /\ OpcodeBytes(EditScript, 0, ret, KeepOpcode) > 0
  /\ OpcodeBytes(EditScript, 0, ret, DeleteOpcode) > 0
  /\ OpcodeBytes(EditScript, 0, ret, InsertOpcode) > 0

\* C2: optimality.  In the script ComputeEditScript returns, the Counts of the
\* Delete opcodes plus the Counts of the Insert opcodes add up to the shortest
\* insert/delete edit distance, |Old| + |New| - 2*LCS(Old, New).
Optimality ==
  (Computed /\ (ret >= 0))
    => (CountSum(EditScript, 0, ret, DeleteOpcode) + CountSum(EditScript, 0, ret, InsertOpcode)
          = EditDistance(OldString, NewString))

\* a script with deletions and insertions for strings that share bytes
OptimalityWitness ==
  /\ Computed /\ (ret >= 0)
  /\ LCS(OldString, N, NewString, M) >= 2
  /\ CountSum(EditScript, 0, ret, DeleteOpcode) >= 1
  /\ CountSum(EditScript, 0, ret, InsertOpcode) >= 1

\* C3: well-formed output.  A script of length L returned by ComputeEditScript
\* parses from offset 0 to exactly offset L as opcode bytes with tag Insert,
\* Delete or Keep, never Noop, each Insert followed by exactly Count payload
\* bytes and each Delete or Keep by none.
WellFormedScript ==
  (Computed /\ (ret >= 0)) => ParsesTo(EditScript, 0, ret)

\* a returned script holding all three opcodes
WellFormedWitness ==
  /\ Computed /\ (ret >= 3) /\ ParsesTo(EditScript, 0, ret)
  /\ OpcodeBytes(EditScript, 0, ret, KeepOpcode) > 0
  /\ OpcodeBytes(EditScript, 0, ret, DeleteOpcode) > 0
  /\ OpcodeBytes(EditScript, 0, ret, InsertOpcode) > 0

\* C4 as claimed: a script buffer of |Old| + |New| + 2 bytes always suffices,
\* ComputeEditScript never returns -1 with it.
DocLengthSuffices ==
  (Computed /\ (EditScriptLength = DocLength(OldString, NewString))) => (ret # -1)

\* C4 as amended: a script buffer of |Old| + |New| + 2 bytes suffices whenever
\* NewString has at most 128 bytes (two full Insert chunks).
DocLengthSufficesTwoChunks ==
  (Computed /\ (EditScriptLength = DocLength(OldString, NewString)) /\ (M <= 2 * MaxCount))
    => (ret # -1)

\* the 128-byte insertion fills the documented buffer to its last byte
DocLengthWitness ==
  /\ Computed /\ (EditScriptLength = DocLength(OldString, NewString))
  /\ (M = 2 * MaxCount) /\ (ret = EditScriptLength)

\* C5: script overflow.  No byte is ever written at a script-buffer index
\* >= capacity; a capacity below the length the script has with an ample
\* buffer makes ComputeEditScript return -1, also when the buffer ends between
\* an Insert opcode byte and the end of its payload; a capacity equal to that
\* length succeeds.
ScriptOverflow ==
  /\ (caller = "main") => (\A j \in DOMAIN EditScript : (0 <= j) /\ (j < EditScriptLength))
  /\ (Computed /\ (ret # -2))
       => LET L == ComputeEditScript(OldString, NewString,
                                     AmpleLength(OldString, NewString)).ret
          IN  /\ L >= 0
              /\ (EditScriptLength < L) => (ret = -1)
              /\ (EditScriptLength = L) => (ret = L)

\* the buffer ran out inside the payload of an Insert opcode
ScriptOverflowWitness ==
  /\ Computed /\ (ret = -1)
  /\ \E q \in DOMAIN EditScript :
       /\ ParsesTo(EditScript, 0, q)
       /\ OpcodeOf(EditScript[q]) = InsertOpcode
       /\ q + CountOf(EditScript[q]) >= EditScriptLength
       /\ (EditScriptLength - 1) \in DOMAIN EditScript

\* the copy ApplyEditScript is about to make does not pass its bounds test
CopyOverflows ==
  IF EditScriptIndex < ScriptLength
  THEN /\ OpcodeOf(EditScript[EditScriptIndex]) # DeleteOpcode
       /\ NewStringIndex + CountOf(EditScript[EditScriptIndex]) >= NewStringLength
  ELSE /\ OldStringIndex < N
       /\ NewStringIndex + (N - OldStringIndex) >= NewStringLength

\* C6: apply output bounds.  ApplyEditScript never writes an output byte at an
\* index >= capacity; it returns -1 exactly when a Keep copy, an Insert copy or
\* the tail copy has NewIndex + Count >= capacity; so on a script computed for
\* a non-empty NewString it returns |New| with capacity |New| + 1 and -1 with
\* capacity |New|.
ApplyBounds ==
  /\ [](\A j \in DOMAIN Output : (0 <= j) /\ (j < NewStringLength))
  /\ [][(pc = "apply") => ((applyRet' = -1) <=> CopyOverflows)]_vars
  /\ []((Applied /\ (M > 0))
          => /\ (NewStringLength = M + 1) => (applyRet = M)
             /\ (NewStringLength = M) => (applyRet = -1))

\* a computed script applied with capacity |New| is refused at its last copy
ApplyBoundsWitness ==
  /\ Applied /\ (M > 0) /\ (NewStringLength = M) /\ (applyRet = -1)
  /\ NewStringIndex > 0

\* C7: Noop is corruption.  When the byte ApplyEditScript meets at an opcode
\* position has tag Noop, the call returns a negative error and copies
\* nothing.  The first byte of a script is always at an opcode position.
NoopIsCorruption ==
  ((caller = "raw") /\ (pc = "applied") /\ (ScriptLength >= 1)
     /\ (OpcodeOf(EditScript[0]) = NoopOpcode))
    => ((applyRet < 0) /\ (Output = <<>>))

\* C8: the search always reaches the goal.  The D/k loops reach an entry with
\* SavedX >= |Old| and SavedY >= |New| at some D <= |Old| + |New|, the script
\* builder never hands Noop to AddEditScript, and ComputeEditScript never
\* returns -3.
SearchReachesGoal ==
  /\ (pc = "search") => (D <= N + M)
  /\ (pc \in {"reverse", "walk"})
       => ((D <= N + M) /\ (EndIndex \in {DkIndex(D, kk) : kk \in RowKs(D)})
             /\ (V[EndIndex].SavedX >= N) /\ (V[EndIndex].SavedY >= M))
  /\ ((pc = "walk") /\ (OpcodeCount > 0))
       => (LastOpcode \in {InsertOpcode, DeleteOpcode, KeepOpcode})
  /\ Computed => (ret # -3)

\* the goal is reached in the last row the bound allows
SearchReachesGoalWitness ==
  /\ (pc = "reverse") /\ (N >= 1) /\ (M >= 1) /\ (D = N + M)
  /\ (V[EndIndex].SavedX >= N) /\ (V[EndIndex].SavedY >= M)

\* C9 as claimed: every arena index ComputeEditScript reads or writes is
\* >= 0 and < (|Old|+1)*(|New|+1).
ArenaWithinMaxVSize ==
  \A idx \in acc : (0 <= idx) /\ (idx < MaxVSizeOf(OldString, NewString))

\* C9 as amended: every arena index ComputeEditScript reads or writes is
\* >= 0 and < MaxVSize*(MaxVSize+1), the number of entries allocated, where
\* MaxVSize = (|Old|+1)*(|New|+1).
ArenaWithinAllocation ==
  \A idx \in acc : (0 <= idx) /\ (idx < AllocatedEntries(OldString, NewString))

\* the goal entry lies at an index >= MaxVSize
ArenaWitness ==
  /\ (pc = "reverse") /\ (EndIndex \in acc)
  /\ EndIndex >= MaxVSizeOf(OldString, NewString)

\* the emission walk did not return in this step
WalkStays == (pc = "walk") /\ (CurrentVIndex # -1) /\ (pc' = "walk")

\* this step added one to a run of Opcode
AddsToRun(Opcode) ==
  /\ LastOpcode' = Opcode
  /\ OpcodeCount' = IF LastOpcode = Opcode THEN OpcodeCount + 1 ELSE 1

\* C10 as claimed: on a delete node v, when (i < v.Index and i != 0) is false
\* the walk adds one to a Delete run and advances i and the trace cursor; on
\* an insert node v, when (i <= v.Index and i != 0) is false the walk adds one
\* to an Insert run and advances the trace cursor; also when i = 0.
WalkBranchRule ==
  [][WalkStays =>
       LET v == V[CurrentVIndex]
       IN  /\ ((v.IsDelete # 0) /\ ~((i < v.Index) /\ (i # 0)))
                => (AddsToRun(DeleteOpcode) /\ (i' = i + 1) /\ (CurrentVIndex' = v.Back))
           /\ ((v.IsDelete = 0) /\ ~((i <= v.Index) /\ (i # 0)))
                => (AddsToRun(InsertOpcode) /\ (i' = i) /\ (CurrentVIndex' = v.Back))]_vars

\* C10 as amended: on a delete node v, when i < v.Index is false the walk adds
\* one to a Delete run and advances i and the trace cursor; on an insert node
\* v, when i <= v.Index is false the walk adds one to an Insert run and
\* advances the trace cursor.  In the first iteration, where i = 0, the test
\* holds and the walk only advances i.
WalkBranchRuleOuterTest ==
  [][WalkStays =>
       LET v == V[CurrentVIndex]
       IN  /\ ((v.IsDelete # 0) /\ ~(i < v.Index))
                => (AddsToRun(DeleteOpcode) /\ (i' = i + 1) /\ (CurrentVIndex' = v.Back))
           /\ ((v.IsDelete = 0) /\ ~(i <= v.Index))
                => (AddsToRun(InsertOpcode) /\ (i' = i) /\ (CurrentVIndex' = v.Back))
           /\ (i = 0)
                => /\ IF v.IsDelete # 0 THEN i < v.Index ELSE i <= v.Index
                   /\ i' = 1
                   /\ UNCHANGED <<CurrentVIndex, LastOpcode, OpcodeCount, EditScript>>]_vars

\* the walk has extended a Delete run after flushing an earlier run
WalkBranchWitness ==
  /\ (pc = "walk") /\ (LastOpcode = DeleteOpcode) /\ (OpcodeCount >= 2)
  /\ CurrentEditScriptIndex >= 1

\* C11: the chunking encoder.  AddEditScript called with kind Keep, Delete or
\* Insert, a Count C >= 1 and enough remaining capacity writes exactly
\* ceil(C/64) opcode bytes of that kind, each with Count 64 except the last,
\* which carries the remainder; for Insert the j-th opcode byte (j from 0) is
\* followed at once by the source bytes at offsets 64*j .. 64*j + chunk - 1;
\* the returned offset is the old offset plus ceil(C/64), plus C for Insert.
ChunkingEncoder ==
  ((caller = "encoder") /\ (pc = "encoded") /\ (LastOpcode # NoopOpcode)
     /\ (EditScriptLength - CurrentEditScriptIndex
           >= ((OpcodeCount + 63) \div 64) + (IF LastOpcode = InsertOpcode THEN OpcodeCount ELSE 0)))
    => LET C == OpcodeCount
           Chunks == (C + 63) \div 64
           Stride == IF LastOpcode = InsertOpcode THEN 65 ELSE 1
           Size(j) == IF j < Chunks - 1 THEN 64 ELSE C - (64 * (Chunks - 1))
           Pos(j) == CurrentEditScriptIndex + (j * Stride)
       IN  /\ ret = CurrentEditScriptIndex + Chunks + (IF LastOpcode = InsertOpcode THEN C ELSE 0)
           /\ DOMAIN EditScript = CurrentEditScriptIndex..(ret - 1)
           /\ \A j \in 0..(Chunks - 1) :
                /\ EditScript[Pos(j)] \div 64 = LastOpcode
                /\ (EditScript[Pos(j)] % 64) + 1 = Size(j)
                /\ (LastOpcode = InsertOpcode)
                     => \A t \in 0..(Size(j) - 1) :
                          EditScript[Pos(j) + 1 + t] = NewString[StartInsertToken + (64 * j) + t + 1]

\* an Insert run of three chunks, taken from inside NewString, has been encoded
ChunkingEncoderWitness ==
  /\ (caller = "encoder") /\ (pc = "encoded")
  /\ (LastOpcode = InsertOpcode) /\ (OpcodeCount > 128) /\ (StartInsertToken = 1)
  /\ (CurrentEditScriptIndex = 1)
  /\ ret = CurrentEditScriptIndex + 3 + OpcodeCount

\* the walk is about to process the insert node V[CurrentVIndex]
AtInsertNode ==
  /\ (pc = "walk") /\ (CurrentVIndex # -1)
  /\ V[CurrentVIndex].IsDelete = 0
  /\ ~(i <= V[CurrentVIndex].Index)

\* this step of the walk wrote the open Insert run to the script
FlushesInsertRun ==
  /\ (pc = "walk") /\ (LastOpcode = InsertOpcode) /\ (OpcodeCount > 0)
  /\ CurrentEditScriptIndex' # CurrentEditScriptIndex
  /\ CurrentEditScriptIndex' >= 0

\* C12: Insert-run contiguity.  Whenever the walk processes an insert node
\* while LastOpcode is Insert, the node's Token is the position of New exactly
\* OpcodeCount bytes after StartInsertToken; every insert node's Token lies
\* inside New, and so does the whole open run StartInsertToken ..
\* StartInsertToken + OpcodeCount - 1; and when the run is written out, the
\* payload copied from StartInsertToken is the bytes of New at the run's
\* positions, in order.
InsertRunContiguity ==
  [][/\ AtInsertNode
          => /\ V[CurrentVIndex].Token \in 0..(M - 1)
             /\ (LastOpcode = InsertOpcode)
                  => V[CurrentVIndex].Token = StartInsertToken + OpcodeCount
             /\ (pc' = "walk")
                  => /\ LastOpcode' = InsertOpcode
                     /\ V[CurrentVIndex].Token = StartInsertToken' + (OpcodeCount' - 1)
     /\ ((pc = "walk") /\ (LastOpcode = InsertOpcode))
          => /\ OpcodeCount >= 1
             /\ StartInsertToken \in 0..(M - OpcodeCount)
     /\ FlushesInsertRun
          => \A t \in 0..(OpcodeCount - 1) :
               EditScript'[CurrentEditScriptIndex + 1 + t + (t \div 64)]
                 = NewString[StartInsertToken + t + 1]]_vars

\* the walk is about to extend an Insert run that starts inside New, after
\* its first byte
InsertRunWitness ==
  /\ AtInsertNode
  /\ (LastOpcode = InsertOpcode) /\ (OpcodeCount >= 1) /\ (StartInsertToken >= 1)
  /\ V[CurrentVIndex].Token = StartInsertToken + OpcodeCount

====
